---------------------------- MODULE Spec2Model ----------------------------
(***************************************************************************)
(* A model of sysmon (src/main.go): the bubbletea model with its Update    *)
(* and its View in the event loop of the program, the detection of the GPU *)
(* vendor, the bar renderer createBarWithText and the truncation utility   *)
(* truncateLeft.                                                           *)
(*                                                                         *)
(* Representation.                                                         *)
(*  - A Go string is a sequence of bytes.  A byte is written as a string:  *)
(*    an ASCII byte as its character ("a", "/"), any other byte as its two *)
(*    hexadecimal digits ("E6").                                           *)
(*  - A rune (a code point) is written as the sequence of the bytes of its *)
(*    UTF-8 encoding; []rune(s) is Runes(s) and string(runes) is           *)
(*    String(runes).  A byte that starts no valid encoding decodes to      *)
(*    U+FFFD, as in Go.                                                    *)
(*  - A float64 percentage is an integer number of tenths of a percent     *)
(*    (505 is 50.5).                                                       *)
(*  - Rendered text is a sequence of segments [txt, st]: txt the bytes     *)
(*    that were rendered and st the lipgloss style they were rendered in   *)
(*    (NoStyle for text that went through no Render call).                 *)
(***************************************************************************)
EXTENDS Integers, Sequences, FiniteSets, TLC

VARIABLES
    m,      \* the bubbletea model: [stats, width, height]
    frame,  \* what View returned for m: [done, lines, rest]
    bar,    \* one call of createBarWithText: its arguments and its result
    trunc,  \* one call of truncateLeft: its arguments and its result
    upd,    \* the last call of Update: its message, the model it was called
            \* on and the command it returned
    rt,     \* what the program has under way: the collections, the tick
            \* timers, the quit message, and whether the loop has ended
    det     \* the detection of the GPU vendor: the sync.Once, the cached
            \* vendor, the goroutines that call or read it

vars == <<m, frame, bar, trunc, upd, rt, det>>

---------------------------------------------------------------------------
(* Bounds of the model *)

\* longest input string of truncateLeft, in characters
MaxChars == 6
\* largest maxWidth handed to truncateLeft
MaxTruncWidth == 6
\* largest width handed to createBarWithText on its own
MaxBarWidth == 50
\* most collections under way at a time
MaxInFlight == 2
\* goroutines that call detectGPUVendor besides main
MaxCallers == 2

---------------------------------------------------------------------------
(* Go strings, bytes and runes *)

Min(a, b) == IF a < b THEN a ELSE b
Max(a, b) == IF a > b THEN a ELSE b

\* lead bytes of two- and three-byte encodings, continuation bytes
Lead2 == {"C3"}
Lead3 == {"E4", "E6", "EF"}
ContBytes == {"96", "87", "A9", "BB", "B6", "BF", "BD"}

\* U+FFFD, what Go decodes an invalid byte to
RuneError == <<"EF", "BF", "BD">>

\* the encoded length the lead byte b announces
LeadLen(b) == IF b \in Lead3 THEN 3 ELSE IF b \in Lead2 THEN 2 ELSE 1

\* whether the bytes of s from position i on start with a valid encoding
ValidAt(s, i) ==
    LET n == LeadLen(s[i])
    IN  /\ s[i] \notin ContBytes
        /\ s[i] # "FF"
        /\ i + n - 1 <= Len(s)
        /\ \A k \in 1..(n - 1) : s[i + k] \in ContBytes

RECURSIVE RunesFrom(_, _)
RunesFrom(s, i) ==
    IF i > Len(s) THEN <<>>
    ELSE IF ValidAt(s, i)
         THEN <<SubSeq(s, i, i + LeadLen(s[i]) - 1)>> \o RunesFrom(s, i + LeadLen(s[i]))
         ELSE <<RuneError>> \o RunesFrom(s, i + 1)

\* []rune(s)
Runes(s) == RunesFrom(s, 1)

\* string(runes)
RECURSIVE String(_)
String(runes) ==
    IF runes = <<>> THEN <<>> ELSE Head(runes) \o String(Tail(runes))

\* the literal "..."
Ellipsis == <<".", ".", ".">>

---------------------------------------------------------------------------
(* truncateLeft, src/main.go:297-320 *)

\* a variant of truncateLeft that counts and cuts bytes, not code points
truncateLeft_bytes(s, maxWidth) ==
    IF maxWidth <= 0 THEN <<>>
    ELSE IF Len(s) <= maxWidth THEN s
    ELSE IF maxWidth <= 3 THEN SubSeq(Ellipsis, 1, maxWidth)
    ELSE Ellipsis \o SubSeq(s, Len(s) - (maxWidth - 3) + 1, Len(s))

\* a variant of truncateLeft that keeps the head of s, not its tail
truncateLeft_head(s, maxWidth) ==
    LET runes == Runes(s)
    IN  IF maxWidth <= 0 THEN <<>>
        ELSE IF Len(runes) <= maxWidth THEN s
        ELSE IF maxWidth <= 3 THEN SubSeq(Ellipsis, 1, maxWidth)
        ELSE Ellipsis \o String(SubSeq(runes, 1, maxWidth - 3))

\* a variant of truncateLeft with < in place of <= in the test of line 305
truncateLeft_strict(s, maxWidth) ==
    LET runes == Runes(s)
    IN  IF maxWidth <= 0 THEN <<>>
        ELSE IF Len(runes) < maxWidth THEN s
        ELSE IF maxWidth <= 3 THEN SubSeq(Ellipsis, 1, maxWidth)
        ELSE Ellipsis \o String(SubSeq(runes, Len(runes) - (maxWidth - 3) + 1, Len(runes)))

\* truncateLeft
truncateLeft(s, maxWidth) ==
    LET runes == Runes(s)
    IN  IF maxWidth <= 0 THEN <<>>
        ELSE IF Len(runes) <= maxWidth THEN s
        ELSE IF maxWidth <= 3 THEN SubSeq(Ellipsis, 1, maxWidth)
        ELSE Ellipsis \o String(SubSeq(runes, Len(runes) - (maxWidth - 3) + 1, Len(runes)))

---------------------------------------------------------------------------
(* lipgloss styles, src/main.go:143-155 and 371-377 *)

\* lipgloss.NewStyle(): no colour, no underline, not bold.  Text that goes
\* through no Render call is rendered the same way.
NoStyle == [fg |-> "", bg |-> "", underline |-> FALSE, bold |-> FALSE]

greenStyle == [NoStyle EXCEPT !.fg = "2"]
yellowStyle == [NoStyle EXCEPT !.fg = "3"]
redStyle == [NoStyle EXCEPT !.fg = "1"]

\* style.Underline(b)
Underline(style, b) == [style EXCEPT !.underline = b]

\* style.Render(s): one segment
Render(style, s) == <<[txt |-> s, st |-> style]>>

\* a string written as it is
Plain(s) == <<[txt |-> s, st |-> NoStyle]>>

\* a variant of getColorStyle in which 50 and 80 belong to the lower band
getColorStyle_inclusive(percent) ==
    IF percent <= 500 THEN greenStyle
    ELSE IF percent <= 800 THEN yellowStyle
    ELSE redStyle

\* getColorStyle, src/main.go:148-155 (percent in tenths)
getColorStyle(percent) ==
    IF percent < 500 THEN greenStyle
    ELSE IF percent < 800 THEN yellowStyle
    ELSE redStyle

\* bgStyle of createBarWithText: black text on the band colour, the
\* underline kept
bgStyle(style) ==
    [NoStyle EXCEPT !.bg = style.fg, !.fg = "0", !.underline = style.underline]

---------------------------------------------------------------------------
(* createBarWithText, src/main.go:348-416 *)

\* lines 353-357
ClampPercent(percent) ==
    IF percent < 0 THEN 0 ELSE IF percent > 1000 THEN 1000 ELSE percent

\* Go evaluates (percent / 100.0) * float64(width) in IEEE-754 binary64 and
\* int() cuts the product towards zero.  percent / 100.0 is rounded to the
\* nearest binary64, and so is the product: where the quotient was rounded
\* down and the exact product is a whole number, the binary64 product lies
\* just below it and int() gives one less (58.0 at width 50:
\* 0.58 * 50.0 = 28.999999999999996).  These are all such pairs
\* <<percent in tenths, width>> for percent in 0.0 .. 100.0 and width
\* in 1 .. 130; at every other pair of that range the binary64 result is the
\* exact integer part.
FloatProductBelow ==
    { <<56, 125>>, <<112, 125>>, <<224, 125>>, <<232, 125>>, <<290, 100>>,
      <<328, 125>>, <<448, 125>>, <<464, 125>>, <<570, 100>>, <<580, 50>>,
      <<580, 100>>, <<656, 125>>, <<700, 90>>, <<776, 125>>, <<808, 125>>,
      <<896, 125>>, <<928, 125>> }

\* int((percent / 100.0) * float64(width)), line 359, percent clamped
FloatFilled(percent, width) ==
    ((percent * width) \div 1000) - (IF <<percent, width>> \in FloatProductBelow THEN 1 ELSE 0)

\* a variant of the test of line 367 with > in place of >=
NoRoomForBar_strict(totalTextLen, width) == totalTextLen > width

\* line 367
NoRoomForBar(totalTextLen, width) == totalTextLen >= width

\* a variant of BarCellStyle that inverts one cell more
BarCellStyle_offByOne(i, filled, style) ==
    IF i <= filled THEN bgStyle(style) ELSE style

\* the style of cell i (from 0): lines 387-411
BarCellStyle(i, filled, style) ==
    IF i < filled THEN bgStyle(style) ELSE style

\* the text of cell i (from 0): lines 385-411
BarCellText(i, labelRunes, percentRunes, width) ==
    LET labelLen == Len(labelRunes)
        percentStart == width - Len(percentRunes)
    IN  IF i < labelLen THEN String(<<labelRunes[i + 1]>>)
        ELSE IF i < percentStart THEN <<" ">>
        ELSE String(<<percentRunes[(i - percentStart) + 1]>>)

\* createBarWithText
createBarWithText(label, percentText, percent, width, style) ==
    IF width <= 0 THEN Plain(label \o <<" ">> \o percentText)
    ELSE LET filled == FloatFilled(ClampPercent(percent), width)
             labelRunes == Runes(label)
             percentRunes == Runes(percentText)
             totalTextLen == Len(labelRunes) + Len(percentRunes)
         IN  IF NoRoomForBar(totalTextLen, width)
             THEN Render(style, label \o <<" ">> \o percentText)
             ELSE [k \in 1..width |->
                     [txt |-> BarCellText(k - 1, labelRunes, percentRunes, width),
                      st |-> BarCellStyle(k - 1, filled, style)]]

---------------------------------------------------------------------------
(* Inputs of truncateLeft *)

\* the characters input strings are made of: two ASCII characters, the
\* three-byte character U+6587 and a byte that is no valid UTF-8
InputChars == {<<"a">>, <<"/">>, <<"E6", "96", "87">>, <<"FF">>}

RECURSIVE StringsOfChars(_)
StringsOfChars(n) ==
    IF n = 0 THEN {<<>>}
    ELSE LET shorter == StringsOfChars(n - 1)
         IN  shorter \cup {s \o c : s \in {x \in shorter : Len(Runes(x)) = n - 1}, c \in InputChars}

TruncIdle == [s |-> <<>>, maxWidth |-> 0, done |-> FALSE, out |-> <<>>]
BarIdle == [done |-> FALSE]
ModelIdle == [width |-> 0, height |-> 0]
NoFrame == [done |-> FALSE, lines |-> <<>>, rest |-> <<>>]
UpdIdle == [done |-> FALSE]
RtIdle == [started |-> FALSE]
DetIdle == [started |-> FALSE]

InitTrunc ==
    /\ trunc \in [s : StringsOfChars(MaxChars), maxWidth : (-1)..MaxTruncWidth,
                  done : {FALSE}, out : {<<>>}]
    /\ bar = BarIdle
    /\ m = ModelIdle
    /\ frame = NoFrame
    /\ upd = UpdIdle
    /\ rt = RtIdle
    /\ det = DetIdle

CallTruncateLeft ==
    /\ ~trunc.done
    /\ trunc' = [trunc EXCEPT !.done = TRUE, !.out = truncateLeft(trunc.s, trunc.maxWidth)]
    /\ UNCHANGED <<m, frame, bar, upd, rt, det>>

NextTrunc == CallTruncateLeft

SpecTrunc == InitTrunc /\ [][NextTrunc]_vars

---------------------------------------------------------------------------
(* Claims about truncateLeft, checked under SpecTrunc *)

\* the length of a string in code points
RuneLen(s) == Len(Runes(s))

\* C9: for every string s and every maxWidth >= 0 the result of truncateLeft
\* is min(len(s), maxWidth) code points long, and it is "" for maxWidth = 0.
C9_TruncatedLength ==
    (trunc.done /\ trunc.maxWidth >= 0) =>
        /\ RuneLen(trunc.out) = Min(RuneLen(trunc.s), trunc.maxWidth)
        /\ RuneLen(trunc.out) <= trunc.maxWidth
        /\ (trunc.maxWidth = 0 => trunc.out = <<>>)

\* a string with a multi-byte character was cut down to more than the ellipsis
C9_Witness ==
    /\ trunc.done
    /\ trunc.maxWidth > 3
    /\ RuneLen(trunc.s) > trunc.maxWidth
    /\ Len(trunc.s) > RuneLen(trunc.s)
    /\ RuneLen(trunc.out) = trunc.maxWidth

\* C10: for s longer than maxWidth code points the result is "" when
\* maxWidth <= 0 and otherwise the first min(maxWidth, 3) characters of "..."
\* followed by the last max(maxWidth - 3, 0) code points of s, in order; the
\* result is made of whole characters only.
C10_EllipsisThenTail ==
    (trunc.done /\ RuneLen(trunc.s) > trunc.maxWidth) =>
        LET n == RuneLen(trunc.s)
            w == trunc.maxWidth
        IN  IF w <= 0 THEN trunc.out = <<>>
            ELSE /\ Runes(trunc.out) =
                        [i \in 1..w |-> IF i <= 3 THEN <<".">> ELSE Runes(trunc.s)[n - w + i]]
                 /\ String(Runes(trunc.out)) = trunc.out

\* the kept tail starts with a multi-byte character and is two characters long
C10_Witness ==
    /\ trunc.done
    /\ trunc.maxWidth = 5
    /\ RuneLen(trunc.s) = 6
    /\ Runes(trunc.s)[5] = <<"E6", "96", "87">>
    /\ trunc.out = Ellipsis \o <<"E6", "96", "87", "a">>

\* C11: a string of at most maxWidth code points, the empty string included,
\* is returned as it is, byte for byte, with no ellipsis.
C11_ShortUnchanged ==
    (trunc.done /\ RuneLen(trunc.s) <= trunc.maxWidth) => trunc.out = trunc.s

\* a string of exactly maxWidth code points, more bytes than code points and
\* a byte that is no valid UTF-8, came back as it was
C11_Witness ==
    /\ trunc.done
    /\ trunc.maxWidth = 3
    /\ trunc.s = <<"E6", "96", "87", "FF", "a">>
    /\ trunc.out = trunc.s

---------------------------------------------------------------------------
(* fmt.Sprintf as View uses it *)

DigitChars == <<"0", "1", "2", "3", "4", "5", "6", "7", "8", "9">>

\* %d of n >= 0
RECURSIVE Itoa(_)
Itoa(n) ==
    IF n < 10 THEN <<DigitChars[n + 1]>> ELSE Itoa(n \div 10) \o <<DigitChars[(n % 10) + 1]>>

RECURSIVE Repeat(_, _)
Repeat(c, n) == IF n <= 0 THEN <<>> ELSE <<c>> \o Repeat(c, n - 1)

\* a minimum field width: padding on the left (%5s) or on the right (%-10s)
PadLeft(s, w, c) == Repeat(c, w - Len(s)) \o s
PadRight(s, w) == s \o Repeat(" ", w - Len(s))

Abs(n) == IF n < 0 THEN -n ELSE n

\* %<w>.1f of a value given in tenths
SprintF1(t, w) ==
    PadLeft((IF t < 0 THEN <<"-">> ELSE <<>>)
              \o Itoa(Abs(t) \div 10) \o <<".">> \o <<DigitChars[(Abs(t) % 10) + 1]>>, w, " ")

\* the value in tenths rounded to a whole number, halves to the even one
RoundHalfEven(a) ==
    LET q == a \div 10
        r == a % 10
    IN  IF r < 5 THEN q
        ELSE IF r > 5 THEN q + 1
        ELSE IF q % 2 = 0 THEN q ELSE q + 1

\* %<w>.0f of a value given in tenths
SprintF0(t, w) ==
    PadLeft((IF t < 0 THEN <<"-">> ELSE <<>>) \o Itoa(RoundHalfEven(Abs(t))), w, " ")

\* Go's integer division, which cuts towards zero
GoDiv(a, b) == IF a >= 0 THEN a \div b ELSE -((-a) \div b)

---------------------------------------------------------------------------
(* model.View, src/main.go:135-293 *)

LoadingText == <<"L", "o", "a", "d", "i", "n", "g", ".", ".", ".">>

\* a variant of HeadlineBarWidth without the floor of lines 162-164
HeadlineBarWidth_noFloor(width) == GoDiv((width - 2) - 2, 2)

\* lines 159-164: the width of a headline bar
HeadlineBarWidth(width) ==
    LET spacingBetweenBars == 2
        availableWidth == width - 2
        barWidth == GoDiv(availableWidth - spacingBetweenBars, 2)
    IN  IF barWidth < 20 THEN 20 ELSE barWidth

\* lines 196-216: the bars per row and the width of a core bar.  The bar
\* width is raised to minBarWidth at lines 206-208, before the test of
\* line 210 reads it.
CoreLayout(width) ==
    LET coresPerLine0 == 4
        spacingBetweenBars == 2
        availableWidth == width - 2
        minBarWidth == 15
        w0 == GoDiv(availableWidth - (coresPerLine0 - 1) * spacingBetweenBars, coresPerLine0)
        w1 == IF w0 < minBarWidth THEN minBarWidth ELSE w0
    IN  IF w1 < minBarWidth /\ coresPerLine0 > 2
        THEN LET coresPerLine == 2
                 w2 == GoDiv(availableWidth - (coresPerLine - 1) * spacingBetweenBars, coresPerLine)
             IN  [coresPerLine |-> coresPerLine,
                  coreBarWidth |-> IF w2 < minBarWidth THEN minBarWidth ELSE w2]
        ELSE [coresPerLine |-> coresPerLine0, coreBarWidth |-> w1]

\* lines 166-177 and 179-190: one headline bar
HeadlineBar(label, percentText, percent, barWidth) ==
    createBarWithText(label, percentText, percent, barWidth,
                      Underline(getColorStyle(percent), TRUE))

\* lines 166-177
HeadlineRow1(stats, barWidth) ==
    HeadlineBar(<<"C", "P", "U", " ", "U", "s", "a", "g", "e">>, SprintF1(stats.CPUUsage, 5) \o <<"%">>, stats.CPUUsage, barWidth)
      \o Plain(<<" ", " ">>)
      \o HeadlineBar(<<"G", "P", "U", " ", "U", "s", "a", "g", "e">>, SprintF0(stats.GPUUsage, 3) \o <<"%">>, stats.GPUUsage, barWidth)

\* lines 179-190
HeadlineRow2(stats, barWidth) ==
    HeadlineBar(<<"M", "e", "m", "o", "r", "y">>, SprintF1(stats.MemoryUsage, 5) \o <<"%">>, stats.MemoryUsage, barWidth)
      \o Plain(<<" ", " ">>)
      \o HeadlineBar(<<"G", "P", "U", " ", "M", "e", "m", "o", "r", "y">>, SprintF1(stats.GPUMemory, 4) \o <<"%">>, stats.GPUMemory, barWidth)

\* a variant of CoreBar that numbers the cores from 1
CoreBar_fromOne(stats, coreNum, coreBarWidth) ==
    LET corePercent == stats.CPUCores[coreNum + 1]
    IN  createBarWithText(<<"C", "P", "U">> \o PadLeft(Itoa(coreNum + 1), 2, "0"),
                          SprintF1(corePercent, 4) \o <<"%">>,
                          corePercent, coreBarWidth,
                          Underline(getColorStyle(corePercent), TRUE))

\* lines 221-229: the bar of core coreNum (from 0)
CoreBar(stats, coreNum, coreBarWidth) ==
    LET corePercent == stats.CPUCores[coreNum + 1]
    IN  createBarWithText(<<"C", "P", "U">> \o PadLeft(Itoa(coreNum), 2, "0"),
                          SprintF1(corePercent, 4) \o <<"%">>,
                          corePercent, coreBarWidth,
                          Underline(getColorStyle(corePercent), TRUE))

\* lines 219-237: the row that starts with core i; the bars from column j on
RECURSIVE CoreRowFrom(_, _, _, _)
CoreRowFrom(stats, i, j, layout) ==
    IF ~(j < layout.coresPerLine /\ i + j < Len(stats.CPUCores)) THEN <<>>
    ELSE (IF j < layout.coresPerLine - 1
          THEN CoreBar(stats, i + j, layout.coreBarWidth) \o Plain(<<" ", " ">>)
          ELSE CoreBar(stats, i + j, layout.coreBarWidth))
         \o CoreRowFrom(stats, i, j + 1, layout)

\* lines 218-238: the rows of the cores from core i on
RECURSIVE CoreRowsFrom(_, _, _)
CoreRowsFrom(stats, i, layout) ==
    IF ~(i < Len(stats.CPUCores)) THEN <<>>
    ELSE <<CoreRowFrom(stats, i, 0, layout)>> \o CoreRowsFrom(stats, i + layout.coresPerLine, layout)

\* lines 244-245
LinesUsed(coreCount, coresPerLine) ==
    LET coreLines == GoDiv(coreCount + coresPerLine - 1, coresPerLine)
    IN  2 + 1 + coreLines + 1 + 1

\* a variant of AvailableLines without the default height of lines 250-252
AvailableLines_noDefault(height, linesUsed) ==
    IF height - linesUsed - 1 < 1 THEN 1 ELSE height - linesUsed - 1

\* a variant of AvailableLines without the line kept free at the bottom
AvailableLines_noMargin(height, linesUsed) ==
    LET terminalHeight == IF height = 0 THEN 24 ELSE height
        availableLines == terminalHeight - linesUsed
    IN  IF availableLines < 1 THEN 1 ELSE availableLines

\* lines 249-257
AvailableLines(height, linesUsed) ==
    LET terminalHeight == IF height = 0 THEN 24 ELSE height
        availableLines == terminalHeight - linesUsed - 1
    IN  IF availableLines < 1 THEN 1 ELSE availableLines

\* a variant of MaxProcesses that leaves the last line of the budget empty
MaxProcesses_oneLess(availableLines, processes) ==
    IF availableLines > Len(processes) THEN Len(processes) ELSE availableLines - 1

\* lines 260-263
MaxProcesses(availableLines, processes) ==
    IF availableLines > Len(processes) THEN Len(processes) ELSE availableLines

\* lines 266-267
headerStyle == [NoStyle EXCEPT !.bold = TRUE, !.underline = TRUE]

HeaderRow ==
    Render(headerStyle,
           PadRight(<<"P", "I", "D">>, 10) \o <<" ">> \o PadLeft(<<"C", "P", "U", "%">>, 5, " ")
             \o <<" ", " ">> \o PadLeft(<<"M", "E", "M", "%">>, 5, " ")
             \o <<" ", " ">> \o <<"C", "O", "M", "M", "A", "N", "D">>)

\* lines 44-51
fixedColumnsWidth == 25
minCommandWidth == 10

\* a variant of CommandWidth that leaves the fixed columns out
CommandWidth_whole(width) ==
    IF width < minCommandWidth THEN minCommandWidth ELSE width

\* lines 272-275
CommandWidth(width) ==
    LET commandWidth == width - fixedColumnsWidth
    IN  IF commandWidth < minCommandWidth THEN minCommandWidth ELSE commandWidth

\* a variant of ProcessRow that shows CPU% and MEM% clamped to [0, 100]
ProcessRow_clamped(proc, commandWidth) ==
    Plain(PadRight(Itoa(proc.PID), 10) \o <<" ">>)
      \o Render(Underline(getColorStyle(proc.CPU), FALSE), SprintF1(ClampPercent(proc.CPU), 5))
      \o Plain(<<" ", " ">>)
      \o Render(Underline(getColorStyle(proc.Memory), FALSE), SprintF1(ClampPercent(proc.Memory), 5))
      \o Plain(<<" ", " ">> \o truncateLeft(proc.Command, commandWidth))

\* lines 278-289: the row of one process
ProcessRow(proc, commandWidth) ==
    Plain(PadRight(Itoa(proc.PID), 10) \o <<" ">>)
      \o Render(Underline(getColorStyle(proc.CPU), FALSE), SprintF1(proc.CPU, 5))
      \o Plain(<<" ", " ">>)
      \o Render(Underline(getColorStyle(proc.Memory), FALSE), SprintF1(proc.Memory, 5))
      \o Plain(<<" ", " ">> \o truncateLeft(proc.Command, commandWidth))

\* what View returns: the lines that end in a newline, in order, and the
\* text after the last newline (done: the call has returned)
View(mm) ==
    IF mm.width = 0 THEN [done |-> TRUE, lines |-> <<>>, rest |-> Plain(LoadingText)]
    ELSE LET stats == mm.stats
             barWidth == HeadlineBarWidth(mm.width)
             layout == CoreLayout(mm.width)
             linesUsed == LinesUsed(Len(stats.CPUCores), layout.coresPerLine)
             availableLines == AvailableLines(mm.height, linesUsed)
             maxProcesses == MaxProcesses(availableLines, stats.Processes)
             commandWidth == CommandWidth(mm.width)
         IN  [done |-> TRUE,
              lines |-> <<HeadlineRow1(stats, barWidth), HeadlineRow2(stats, barWidth), <<>>>>
                          \o CoreRowsFrom(stats, 0, layout)
                          \o <<<<>>, HeaderRow>>
                          \o [i \in 1..maxProcesses |-> ProcessRow(stats.Processes[i], commandWidth)],
              rest |-> <<>>]

---------------------------------------------------------------------------
(* createBarWithText on its own: SpecBar *)

\* labels: none, an ASCII one, one with a two-byte character
BarLabels == {<<>>, <<"C", "P", "U", "0", "0">>, <<"M", "C3", "A9", "m">>}

BarPercentTexts == {<<>>, <<" ", "5", ".", "0", "%">>, <<"1", "0", "0", ".", "0", "%">>}

\* percentages in tenths: below 0, the band limits and their neighbours,
\* above 100
PercentInputs == {-50, 0, 5, 499, 500, 580, 799, 800, 1000, 1500}

BarStyles == {Underline(greenStyle, TRUE), yellowStyle, Underline(redStyle, TRUE)}

InitBar ==
    /\ bar \in [label : BarLabels, percentText : BarPercentTexts, percent : PercentInputs,
                width : (-1)..MaxBarWidth, style : BarStyles, done : {FALSE}, out : {<<>>}]
    /\ trunc = TruncIdle
    /\ m = ModelIdle
    /\ frame = NoFrame
    /\ upd = UpdIdle
    /\ rt = RtIdle
    /\ det = DetIdle

CallCreateBarWithText ==
    /\ ~bar.done
    /\ bar' = [bar EXCEPT !.done = TRUE,
                          !.out = createBarWithText(bar.label, bar.percentText, bar.percent,
                                                    bar.width, bar.style)]
    /\ UNCHANGED <<m, frame, trunc, upd, rt, det>>

NextBar == CallCreateBarWithText

SpecBar == InitBar /\ [][NextBar]_vars

---------------------------------------------------------------------------
(* Claims about createBarWithText, checked under SpecBar *)

\* the text of rendered output with the styling stripped
RECURSIVE Visible(_)
Visible(segs) ==
    IF segs = <<>> THEN <<>> ELSE Head(segs).txt \o Visible(Tail(segs))

\* the call drew a bar: the width is positive and the texts leave room
BarDrawn ==
    /\ bar.done
    /\ bar.width > 0
    /\ RuneLen(bar.label) + RuneLen(bar.percentText) < bar.width

\* the number of cells of a drawn bar in the inverted style
InvertedCells(out, style) == Cardinality({k \in 1..Len(out) : out[k].st = bgStyle(style)})

\* C5: for width > 0 and len(label) + len(percentText) < width the result is
\* exactly width cells of one character each: the first len(label) cells hold
\* the label, the last len(percentText) cells hold percentText, the cells
\* between hold a space, and cell i is in the inverted style if i < filled
\* and in the band style otherwise.
C5_BarCells ==
    BarDrawn =>
        LET labelRunes == Runes(bar.label)
            percentRunes == Runes(bar.percentText)
            L == Len(labelRunes)
            P == Len(percentRunes)
            filled == FloatFilled(ClampPercent(bar.percent), bar.width)
        IN  /\ Len(bar.out) = bar.width
            /\ \A i \in 0..(bar.width - 1) :
                  /\ RuneLen(bar.out[i + 1].txt) = 1
                  /\ i < L => Runes(bar.out[i + 1].txt) = <<labelRunes[i + 1]>>
                  /\ i >= bar.width - P =>
                        Runes(bar.out[i + 1].txt) = <<percentRunes[i - (bar.width - P) + 1]>>
                  /\ (i >= L /\ i < bar.width - P) => bar.out[i + 1].txt = <<" ">>
                  /\ i < filled => bar.out[i + 1].st = bgStyle(bar.style)
                  /\ i >= filled => bar.out[i + 1].st = bar.style

\* a half filled bar of 10 cells with a multi-byte label and a percent text
C5_Witness ==
    /\ BarDrawn
    /\ bar.label = <<"M", "C3", "A9", "m">>
    /\ bar.percentText = <<" ", "5", ".", "0", "%">>
    /\ bar.width = 10
    /\ bar.out[5].st = bgStyle(bar.style)
    /\ bar.out[6].st = bar.style
    /\ bar.out[2].txt = <<"C3", "A9">>
    /\ bar.out[10].txt = <<"%">>

\* C6: the number of filled cells is floor(p' / 100 * width) with p' the
\* percent clamped to [0, 100]; it lies in 0..width, a percent below 0 fills
\* no cell and a percent above 100 fills every cell.
C6_FilledIsFloor ==
    BarDrawn =>
        LET filled == InvertedCells(bar.out, bar.style)
            clamped == Max(0, Min(1000, bar.percent))
        IN  /\ filled = (clamped * bar.width) \div 1000
            /\ 0 <= filled /\ filled <= bar.width
            /\ bar.percent < 0 => filled = 0
            /\ bar.percent > 1000 => filled = bar.width

\* C7: with no room for a bar the visible text is label + " " + percentText
\* in one piece: unstyled for width <= 0, in the band style for width > 0 and
\* len(label) + len(percentText) >= width.
C7_NoRoomFallback ==
    (bar.done /\ ~BarDrawn) =>
        /\ Len(bar.out) = 1
        /\ bar.out[1].txt = bar.label \o <<" ">> \o bar.percentText
        /\ bar.out[1].st = (IF bar.width <= 0 THEN NoStyle ELSE bar.style)

\* the texts are exactly as long as the bar is wide
C7_Witness ==
    /\ bar.done
    /\ bar.width > 0
    /\ bar.label # <<>>
    /\ RuneLen(bar.label) + RuneLen(bar.percentText) = bar.width
    /\ Visible(bar.out) = bar.label \o <<" ">> \o bar.percentText

---------------------------------------------------------------------------
(* View on its own: SpecView *)

\* largest terminal width and height
MaxWidth == 120
MaxHeight == 12

RECURSIVE SumSeq(_)
SumSeq(s) == IF s = <<>> THEN 0 ELSE Head(s) + SumSeq(Tail(s))

\* collectStats, src/main.go:430-460: the snapshot of one collection.  The
\* per-core values, the memory and GPU values and the process list come from
\* outside; CPUUsage is the mean of the cores (0 without cores).  The cores
\* below are chosen with a mean that is a whole number of tenths.
MkStats(cores, gpu, mem, gpuMem, procs) ==
    [CPUUsage |-> IF Len(cores) > 0 THEN SumSeq(cores) \div Len(cores) ELSE 0,
     GPUUsage |-> gpu, MemoryUsage |-> mem, GPUMemory |-> gpuMem,
     CPUCores |-> cores, Processes |-> procs]

ProcessInfo(pid, cpu, memory, command) ==
    [PID |-> pid, CPU |-> cpu, Memory |-> memory, Command |-> command]

ShortCommand == <<"/", "u", "s", "r", "/", "b", "i", "n", "/", "t", "e", "s", "t">>
LongCommand ==
    <<"/", "o", "p", "t", "/", "v", "e", "r", "y", "/", "l", "o", "n", "g", "/", "p", "a", "t", "h", "/", "t", "o", "/", "E6", "96", "87", "E4", "BB", "B6", "/", "b", "i", "n", "/", "e", "x", "e", "c", "u", "t", "a", "b", "l", "e", "-", "n", "a", "m", "e">>

\* eight cores and one process with a short command
StatsEight ==
    MkStats(<<100, 200, 300, 400, 500, 600, 700, 800>>, 250, 600, 300,
            <<ProcessInfo(1234, 105, 52, ShortCommand)>>)

\* values below 0 and above 100, values on the band limits, a long command
\* with multi-byte characters and an empty command
StatsOutOfRange ==
    MkStats(<<-50, 1500, 799, 800, 500, 499, 580, 580>>, 1500, 1000, -50,
            <<ProcessInfo(7, 2500, 800, LongCommand),
              ProcessInfo(42, 500, 499, <<>>),
              ProcessInfo(31337, 499, 0, <<"a">>)>>)

\* a collection in which everything failed
StatsEmpty == MkStats(<<>>, 0, 0, 0, <<>>)

\* three cores (a partial row) and five processes
StatsThree ==
    MkStats(<<100, 500, 900>>, 255, 799, 245,
            <<ProcessInfo(5, 900, 100, ShortCommand),
              ProcessInfo(4, 800, 800, LongCommand),
              ProcessInfo(3, 500, 500, <<"b">>),
              ProcessInfo(2, 499, 1000, <<"a">>),
              ProcessInfo(1, 1, 1, <<>>)>>)

\* two cores and twenty processes, more than a terminal of 24 lines shows
StatsMany ==
    MkStats(<<250, 750>>, 0, 405, 0,
            [i \in 1..20 |-> ProcessInfo(100 + i, 1000 - 45 * i, 10 * i, ShortCommand)])

Snapshots == {StatsEight, StatsOutOfRange, StatsEmpty, StatsThree, StatsMany}

InitView ==
    /\ m \in [stats : Snapshots, width : 0..MaxWidth, height : 0..MaxHeight]
    /\ frame = NoFrame
    /\ bar = BarIdle
    /\ trunc = TruncIdle
    /\ upd = UpdIdle
    /\ rt = RtIdle
    /\ det = DetIdle

\* the program renders the model
RenderView ==
    /\ ~frame.done
    /\ frame' = View(m)
    /\ UNCHANGED <<m, bar, trunc, upd, rt, det>>

NextView == RenderView

SpecView == InitView /\ [][NextView]_vars

---------------------------------------------------------------------------
(* Claims about View, checked under SpecView *)

\* View has returned a composed frame
FrameShown == frame.done /\ m.width # 0

\* the number of columns of a line with the styling stripped
LineWidth(line) == RuneLen(Visible(line))

CoreCount == Len(m.stats.CPUCores)

\* the width the grids are laid out in
AvailableWidth == m.width - 2

\* the number of process rows of the frame
ShownProcesses ==
    Len(frame.lines) - 5 - Cardinality({i \in 0..(CoreCount - 1) : i % CoreLayout(m.width).coresPerLine = 0})

\* the segments of the bar in column col (from 0) of a row of bars barWidth wide
BarOfRow(line, col, barWidth) ==
    SubSeq(line, col * (barWidth + 1) + 1, col * (barWidth + 1) + barWidth)

\* headline bar k (1..4): its value, its label, its percent text for a value
\* v, and its segments in the frame
HeadlineValue(k) ==
    <<m.stats.CPUUsage, m.stats.GPUUsage, m.stats.MemoryUsage, m.stats.GPUMemory>>[k]

HeadlineLabel(k) ==
    <<<<"C", "P", "U", " ", "U", "s", "a", "g", "e">>, <<"G", "P", "U", " ", "U", "s", "a", "g", "e">>,
      <<"M", "e", "m", "o", "r", "y">>, <<"G", "P", "U", " ", "M", "e", "m", "o", "r", "y">>>>[k]

HeadlineText(k, v) ==
    (CASE k = 1 -> SprintF1(v, 5) [] k = 2 -> SprintF0(v, 3)
       [] k = 3 -> SprintF1(v, 5) [] k = 4 -> SprintF1(v, 4)) \o <<"%">>

HeadlineShown(k) ==
    BarOfRow(frame.lines[(k + 1) \div 2], (k - 1) % 2, HeadlineBarWidth(m.width))

\* core bar c (from 0): its label and its segments in the frame
CoreLabel(c) == <<"C", "P", "U">> \o PadLeft(Itoa(c), 2, "0")

CoreShown(c) ==
    LET layout == CoreLayout(m.width)
    IN  BarOfRow(frame.lines[3 + (c \div layout.coresPerLine) + 1], c % layout.coresPerLine,
                 layout.coreBarWidth)

\* process row i (from 1) of the frame
ProcessShown(i) == frame.lines[Len(frame.lines) - ShownProcesses + i]

\* the text of a drawn bar: the label on the left, the text on the right
ExpectedBarText(label, text, width) ==
    label \o Repeat(" ", width - Len(label) - Len(text)) \o text

\* the number of cells of a bar in the inverted style (black on the band colour)
InvertedCount(segs) == Cardinality({k \in 1..Len(segs) : segs[k].st.fg = "0"})

Clamped(v) == Max(0, Min(1000, v))

\* C1: for a width of at least 60 and at least 4 cores the longest line of
\* the frame, styling stripped, is at least width - 1 columns.
C1_FullWidthUsed ==
    (FrameShown /\ m.width >= 60 /\ CoreCount >= 4) =>
        \E k \in 1..Len(frame.lines) : LineWidth(frame.lines[k]) >= m.width - 1

\* C2: when floor((availableWidth - 6) / 4) is below 15 the core grid has 2
\* bars per row, each max(15, floor((availableWidth - 2) / 2)) wide, and the
\* frame has ceil(coreCount / 2) core rows before the blank line and the
\* header.
C2_NarrowGridHasTwoBarsPerRow ==
    (FrameShown /\ GoDiv(AvailableWidth - 6, 4) < 15) =>
        LET barWidth == Max(15, GoDiv(AvailableWidth - 2, 2))
            rows == (CoreCount + 1) \div 2
        IN  /\ Len(frame.lines) >= 5 + rows
            /\ frame.lines[3 + rows + 1] = <<>>
            /\ frame.lines[3 + rows + 2] = HeaderRow
            /\ \A r \in 1..rows :
                  LineWidth(frame.lines[3 + r]) = Min(2, CoreCount - 2 * (r - 1)) * barWidth + 2

\* C3: in both grids, for availableWidth >= 2 * minBarWidth + spacing, a
\* full row is at most availableWidth wide and less than barsPerRow narrower
\* (headline grid: minBarWidth 20, 2 bars; core grid: minBarWidth 15, 4 bars,
\* or 2 where 4 bars of 15 do not fit).
C3_FullRowFitsAvailableWidth ==
    FrameShown =>
        /\ AvailableWidth >= 2 * 20 + 2 =>
              /\ LineWidth(frame.lines[1]) <= AvailableWidth
              /\ LineWidth(frame.lines[1]) > AvailableWidth - 2
        /\ (AvailableWidth >= 2 * 15 + 2 /\ CoreCount >= 4) =>
              LET barsPerRow == IF GoDiv(AvailableWidth - 6, 4) < 15 THEN 2 ELSE 4
              IN  /\ LineWidth(frame.lines[4]) <= AvailableWidth
                  /\ LineWidth(frame.lines[4]) > AvailableWidth - barsPerRow

\* C4: every percentage of the frame is the upstream value clamped to
\* [0, 100]: the fill and the percent text of each headline bar and of each
\* core bar, and the CPU% and MEM% of each process row.
C4_EveryPercentClamped ==
    FrameShown =>
        /\ \A k \in 1..4 :
              /\ InvertedCount(HeadlineShown(k)) =
                     FloatFilled(Clamped(HeadlineValue(k)), HeadlineBarWidth(m.width))
              /\ Visible(HeadlineShown(k)) =
                     ExpectedBarText(HeadlineLabel(k), HeadlineText(k, Clamped(HeadlineValue(k))),
                                     HeadlineBarWidth(m.width))
        /\ \A c \in 0..(CoreCount - 1) :
              /\ InvertedCount(CoreShown(c)) =
                     FloatFilled(Clamped(m.stats.CPUCores[c + 1]), CoreLayout(m.width).coreBarWidth)
              /\ Visible(CoreShown(c)) =
                     ExpectedBarText(CoreLabel(c),
                                     SprintF1(Clamped(m.stats.CPUCores[c + 1]), 4) \o <<"%">>,
                                     CoreLayout(m.width).coreBarWidth)
        /\ \A i \in 1..ShownProcesses :
              /\ ProcessShown(i)[2].txt = SprintF1(Clamped(m.stats.Processes[i].CPU), 5)
              /\ ProcessShown(i)[4].txt = SprintF1(Clamped(m.stats.Processes[i].Memory), 5)

\* C4 as amended: the fill of each headline bar and of each core bar is that
\* of the upstream value clamped to [0, 100]; the percent text of each bar
\* and the CPU% and MEM% of each process row are the upstream value as it
\* is, not clamped.
C4_FillClampedTextNot ==
    FrameShown =>
        /\ \A k \in 1..4 :
              /\ InvertedCount(HeadlineShown(k)) =
                     FloatFilled(Clamped(HeadlineValue(k)), HeadlineBarWidth(m.width))
              /\ Visible(HeadlineShown(k)) =
                     ExpectedBarText(HeadlineLabel(k), HeadlineText(k, HeadlineValue(k)),
                                     HeadlineBarWidth(m.width))
        /\ \A c \in 0..(CoreCount - 1) :
              /\ InvertedCount(CoreShown(c)) =
                     FloatFilled(Clamped(m.stats.CPUCores[c + 1]), CoreLayout(m.width).coreBarWidth)
              /\ Visible(CoreShown(c)) =
                     ExpectedBarText(CoreLabel(c), SprintF1(m.stats.CPUCores[c + 1], 4) \o <<"%">>,
                                     CoreLayout(m.width).coreBarWidth)
        /\ \A i \in 1..ShownProcesses :
              /\ ProcessShown(i)[2].txt = SprintF1(m.stats.Processes[i].CPU, 5)
              /\ ProcessShown(i)[4].txt = SprintF1(m.stats.Processes[i].Memory, 5)

\* a frame of a snapshot with values below 0 and above 100: the GPU bar is
\* full and reads 150%, the first process row reads 250.0
C4_Witness ==
    /\ FrameShown
    /\ m.stats = StatsOutOfRange
    /\ m.width = 80
    /\ InvertedCount(HeadlineShown(2)) = HeadlineBarWidth(80)
    /\ InvertedCount(HeadlineShown(4)) = 0
    /\ ShownProcesses >= 1
    /\ ProcessShown(1)[2].txt = <<"2", "5", "0", ".", "0">>

\* the colour of a band
BandColour(v) == IF v >= 800 THEN "1" ELSE IF v >= 500 THEN "3" ELSE "2"

\* the band colour a segment is rendered in
SegmentColour(seg) == IF seg.st.fg = "0" THEN seg.st.bg ELSE seg.st.fg

\* C8: green below 50, yellow from 50 to below 80, red from 80 on: every
\* cell of every headline bar and of every core bar, and the CPU and memory
\* values of every process row, are in the colour of the band of their value.
C8_BandColours ==
    FrameShown =>
        /\ \A k \in 1..4 : \A j \in 1..Len(HeadlineShown(k)) :
              SegmentColour(HeadlineShown(k)[j]) = BandColour(HeadlineValue(k))
        /\ \A c \in 0..(CoreCount - 1) : \A j \in 1..Len(CoreShown(c)) :
              SegmentColour(CoreShown(c)[j]) = BandColour(m.stats.CPUCores[c + 1])
        /\ \A i \in 1..ShownProcesses :
              /\ ProcessShown(i)[2].st.fg = BandColour(m.stats.Processes[i].CPU)
              /\ ProcessShown(i)[4].st.fg = BandColour(m.stats.Processes[i].Memory)

\* a frame with values on both band limits in a headline bar, in core bars
\* and in a process row
C8_Witness ==
    /\ FrameShown
    /\ m.stats = StatsOutOfRange
    /\ ShownProcesses >= 2
    /\ Len(HeadlineShown(3)) = HeadlineBarWidth(m.width)
    /\ SegmentColour(HeadlineShown(3)[1]) = "1"
    /\ SegmentColour(CoreShown(3)[1]) = "1"
    /\ SegmentColour(CoreShown(4)[1]) = "3"
    /\ SegmentColour(CoreShown(5)[1]) = "2"
    /\ ProcessShown(2)[2].st.fg = "3"
    /\ ProcessShown(2)[4].st.fg = "2"

\* the vertical budget: the lines left for process rows in a terminal of
\* the stored height (24 for 0) under 2 headline rows, a blank line, the core
\* rows, a blank line and the header, with one line kept free; 1 at least
VerticalBudget ==
    LET h == IF m.height = 0 THEN 24 ELSE m.height
        barsPerRow == CoreLayout(m.width).coresPerLine
        coreRows == Cardinality({c \in 0..(CoreCount - 1) : c % barsPerRow = 0})
    IN  Max(1, h - (5 + coreRows) - 1)

FirstBarWidth(line) ==
    Cardinality({k \in 1..Len(line) : \A j \in 1..k : line[j].st # NoStyle})

\* the command of process row i as the frame shows it
CommandShown(i) == SubSeq(ProcessShown(i)[5].txt, 3, Len(ProcessShown(i)[5].txt))

\* C19: for every non-zero width the headline bars are
\* max(20, floor((availableWidth - 2) / 2)) cells wide, the core bars at
\* least 15 cells, and the command column at least 10 characters: a command
\* of 10 or more characters is shown with at least 10 of them.
C19_WidthsHaveFloors ==
    FrameShown =>
        /\ FirstBarWidth(frame.lines[1]) = Max(20, (AvailableWidth - 2) \div 2)
        /\ FirstBarWidth(frame.lines[2]) = Max(20, (AvailableWidth - 2) \div 2)
        /\ HeadlineBarWidth(m.width) = Max(20, (AvailableWidth - 2) \div 2)
        /\ CoreLayout(m.width).coreBarWidth >= 15
        /\ CoreCount >= 1 => FirstBarWidth(frame.lines[4]) >= 15
        /\ CommandWidth(m.width) >= 10
        /\ \A i \in 1..ShownProcesses :
              RuneLen(CommandShown(i)) >= Min(10, RuneLen(m.stats.Processes[i].Command))

\* a terminal one column wide: bars of 20 and of 15 cells, a long command cut
\* to 10 characters
C19_Witness ==
    /\ FrameShown
    /\ m.width = 1
    /\ m.stats = StatsOutOfRange
    /\ FirstBarWidth(frame.lines[1]) = 20
    /\ FirstBarWidth(frame.lines[4]) = 15
    /\ ShownProcesses >= 1
    /\ RuneLen(CommandShown(1)) = 10

\* C20: availableLines is max(1, h - linesUsed - 1) with h the height, 24
\* for 0, and linesUsed = 5 + ceil(coreCount / barsPerRow); it is at least 1
\* for every height.  A snapshot with that many processes fills exactly
\* availableLines rows, and one with a process shows a row at every height.
C20_VerticalBudget ==
    FrameShown =>
        /\ AvailableLines(m.height, LinesUsed(CoreCount, CoreLayout(m.width).coresPerLine))
              = VerticalBudget
        /\ VerticalBudget >= 1
        /\ Len(m.stats.Processes) >= VerticalBudget => ShownProcesses = VerticalBudget
        /\ Len(m.stats.Processes) >= 1 => ShownProcesses >= 1

\* a terminal lower than the lines above the process rows: one row is shown
C20_Witness ==
    /\ FrameShown
    /\ m.stats = StatsMany
    /\ m.height = 3
    /\ Len(frame.lines) = 7
    /\ ShownProcesses = 1

\* an unknown height counts as 24 lines: 17 rows under one row of cores
C20_WitnessDefaultHeight ==
    /\ FrameShown
    /\ m.stats = StatsMany
    /\ m.height = 0
    /\ ShownProcesses = 17

\* the number of bars per row of cores the frame is laid out with, and the
\* number of rows that takes: the least n with n * barsPerRow >= coreCount
BarsPerRow == CoreLayout(m.width).coresPerLine

CoreRows ==
    CHOOSE n \in 0..CoreCount :
        n * BarsPerRow >= CoreCount /\ (n = 0 \/ (n - 1) * BarsPerRow < CoreCount)

\* the text of the header row
HeaderText ==
    <<"P", "I", "D", " ", " ", " ", " ", " ", " ", " ", " ",
      " ", "C", "P", "U", "%", " ", " ", " ", "M", "E", "M", "%", " ", " ",
      "C", "O", "M", "M", "A", "N", "D">>

\* s starts with p
StartsWith(s, p) == Len(s) >= Len(p) /\ SubSeq(s, 1, Len(p)) = p

\* C21: for a non-zero width the frame is, in this order: the two headline
\* rows (CPU Usage and GPU Usage, Memory and GPU Memory), a blank line,
\* ceil(coreCount / barsPerRow) rows of cores in index order, barsPerRow
\* bars in a row but for a partial last row, labelled CPU00, CPU01, ..., a
\* blank line, the header row and the process rows; every line ends in a
\* newline and there are 5 + ceil(coreCount / barsPerRow) + shown process
\* rows lines, at least 5.
C21_FrameStructure ==
    FrameShown =>
        LET lines == frame.lines
            cw == CoreLayout(m.width).coreBarWidth
            shown == Min(VerticalBudget, Len(m.stats.Processes))
        IN  /\ frame.rest = <<>>
            /\ Len(lines) = 5 + CoreRows + shown
            /\ Len(lines) >= 5
            /\ \A k \in 1..4 : StartsWith(Visible(HeadlineShown(k)), HeadlineLabel(k))
            /\ \A r \in 1..2 : Len(lines[r]) = 2 * HeadlineBarWidth(m.width) + 1
            /\ lines[3] = <<>>
            /\ \A r \in 1..CoreRows :
                  LET n == Min(BarsPerRow, CoreCount - (r - 1) * BarsPerRow)
                      row == lines[3 + r]
                  IN  /\ n >= 1
                      /\ Len(row) = n * cw + (IF n < BarsPerRow THEN n ELSE n - 1)
                      /\ \A j \in 0..(n - 1) :
                            StartsWith(Visible(BarOfRow(row, j, cw)),
                                       CoreLabel((r - 1) * BarsPerRow + j))
            /\ lines[3 + CoreRows + 1] = <<>>
            /\ Visible(lines[3 + CoreRows + 2]) = HeaderText
            /\ \A i \in 1..shown :
                  LET row == lines[5 + CoreRows + i]
                  IN  /\ Len(row) = 5
                      /\ row[1].txt = PadRight(Itoa(m.stats.Processes[i].PID), 10) \o <<" ">>

\* three cores in a partial row of CPU00, CPU01, CPU02 and three process rows
C21_Witness ==
    /\ FrameShown
    /\ m.stats = StatsThree
    /\ m.width = 80
    /\ m.height = 10
    /\ Len(frame.lines) = 9
    /\ Visible(BarOfRow(frame.lines[4], 2, CoreLayout(80).coreBarWidth))[5] = "2"
    /\ frame.lines[5] = <<>>

\* no cores and no processes: the five lines of the two headline rows, the
\* two blank lines and the header row
C21_WitnessEmpty ==
    /\ FrameShown
    /\ m.stats = StatsEmpty
    /\ Len(frame.lines) = 5
    /\ frame.lines[4] = <<>>

\* C22: in every process row the command is shown as
\* truncateLeft(command, commandWidth) with commandWidth = max(10, width - 25):
\* never longer than commandWidth code points, and in full when it fits.
C22_CommandTruncated ==
    FrameShown =>
        \A i \in 1..ShownProcesses :
            LET command == m.stats.Processes[i].Command
                commandWidth == Max(10, m.width - 25)
            IN  /\ CommandShown(i) = truncateLeft(command, commandWidth)
                /\ RuneLen(CommandShown(i)) <= commandWidth
                /\ RuneLen(command) <= commandWidth => CommandShown(i) = command

\* at 80 columns the command of 45 code points fits the 55 columns and is
\* shown in full
C22_Witness ==
    /\ FrameShown
    /\ m.stats = StatsOutOfRange
    /\ m.width = 80
    /\ ShownProcesses >= 1
    /\ RuneLen(LongCommand) = 45
    /\ CommandShown(1) = LongCommand

\* at 40 columns it is cut to 15 code points: "..." and its last 12
C22_WitnessCut ==
    /\ FrameShown
    /\ m.stats = StatsOutOfRange
    /\ m.width = 40
    /\ ShownProcesses >= 1
    /\ RuneLen(CommandShown(1)) = 15
    /\ StartsWith(CommandShown(1), Ellipsis)

\* the height View reckons with, and the lines above the process rows
TerminalHeight == IF m.height = 0 THEN 24 ELSE m.height

FixedLines == 5 + CoreRows

\* C26 as stated: with h at least linesUsed + 2 the frame has at most h - 1
\* lines; a frame taller than the terminal comes from a budget clamped up to
\* 1 only, and is taller by no more than the one forced process row.
C26_AtMostOneRowTaller ==
    FrameShown =>
        /\ TerminalHeight >= FixedLines + 2 => Len(frame.lines) <= TerminalHeight - 1
        /\ Len(frame.lines) > TerminalHeight =>
              /\ TerminalHeight - FixedLines - 1 < 1
              /\ Len(frame.lines) <= TerminalHeight + 1

\* C26, amended: with h at least linesUsed + 2 the frame has at most h - 1
\* lines; a frame taller than the terminal comes from a budget clamped up to
\* 1 only, and then has the linesUsed lines above the process rows and at
\* most the one forced process row, however low the terminal is.
C26_FitsOrOneForcedRow ==
    FrameShown =>
        /\ TerminalHeight >= FixedLines + 2 => Len(frame.lines) <= TerminalHeight - 1
        /\ Len(frame.lines) > TerminalHeight =>
              /\ TerminalHeight - FixedLines - 1 < 1
              /\ Len(frame.lines) <= FixedLines + 1
              /\ ShownProcesses <= 1

\* twenty processes in a terminal of 12 lines: 11 lines, the last line free
C26_Witness ==
    /\ FrameShown
    /\ m.stats = StatsMany
    /\ m.height = 12
    /\ Len(frame.lines) = 11

\* a terminal of 3 lines: the 6 lines above the process rows and the forced
\* row, 4 lines more than the terminal has
C26_WitnessLow ==
    /\ FrameShown
    /\ m.stats = StatsMany
    /\ m.height = 3
    /\ FixedLines = 6
    /\ Len(frame.lines) = 7

---------------------------------------------------------------------------
(* The program: initialModel, model.Init, model.Update, tick, updateStats  *)
(* (src/main.go:66-133 and 418-428) in the event loop of bubbletea: Spec   *)

\* the sizes resize messages report: a terminal of 80 columns and 24 lines,
\* and one that reports no size
Sizes == {<<0, 0>>, <<80, 24>>}

\* the keys key messages report, as msg.String() gives them
Keys == {"q", "Q", "ctrl+c", "esc", "a"}

\* the snapshots collectStats returns
LoopSnapshots == {StatsEmpty, StatsThree, StatsEight}

\* messages
WindowSizeMsg(w, h) == [type |-> "WindowSizeMsg", Width |-> w, Height |-> h]
KeyMsg(k) == [type |-> "KeyMsg", key |-> k]
tickMsg == [type |-> "tickMsg"]
StatsMsg(s) == [type |-> "SystemStats", stats |-> s]
\* a message of any other type
OtherMsg == [type |-> "other"]

\* commands: a command is the set of the things it starts
Nil == {}
Quit == {"tea.Quit"}
tick == {"tick"}
updateStats == {"updateStats"}
Batch(a, b) == a \cup b

\* a variant of initialModel that starts with the size of a terminal
initialModel_sized(stats) == [stats |-> stats, width |-> 80, height |-> 24]

\* initialModel, lines 99-103, stats being what collectStats returned
initialModel(stats) == [stats |-> stats, width |-> 0, height |-> 0]

\* model.Init, lines 105-107
model_Init == Batch(tick, updateStats)

\* a variant of OnWindowSize that also starts a timer and a collection
OnWindowSize_refresh(mm, msg) ==
    [model |-> [mm EXCEPT !.width = msg.Width, !.height = msg.Height],
     cmd |-> Batch(tick, updateStats)]

\* Update, case tea.WindowSizeMsg, lines 111-114
OnWindowSize(mm, msg) ==
    [model |-> [mm EXCEPT !.width = msg.Width, !.height = msg.Height], cmd |-> Nil]

\* a variant of OnKey in which Q does not quit
OnKey_lower(mm, msg) ==
    [model |-> mm, cmd |-> IF msg.key \in {"q", "ctrl+c", "esc"} THEN Quit ELSE Nil]

\* Update, case tea.KeyMsg, lines 116-121
OnKey(mm, msg) ==
    [model |-> mm, cmd |-> IF msg.key \in {"q", "Q", "ctrl+c", "esc"} THEN Quit ELSE Nil]

\* a variant of OnTick that arms the next timer and collects nothing
OnTick_timerOnly(mm, msg) == [model |-> mm, cmd |-> tick]

\* a variant of OnTick that starts a collection and arms no timer
OnTick_collectOnly(mm, msg) == [model |-> mm, cmd |-> updateStats]

\* Update, case tickMsg, lines 123-124
OnTick(mm, msg) == [model |-> mm, cmd |-> Batch(tick, updateStats)]

\* a variant of OnStats that keeps the process list of the old snapshot
OnStats_keepProcesses(mm, msg) ==
    [model |-> [mm EXCEPT !.stats = [msg.stats EXCEPT !.Processes = mm.stats.Processes]],
     cmd |-> Nil]

\* Update, case SystemStats, lines 126-128
OnStats(mm, msg) == [model |-> [mm EXCEPT !.stats = msg.stats], cmd |-> Nil]

\* model.Update, lines 109-133: the model and the command it returns
Update(mm, msg) ==
    CASE msg.type = "WindowSizeMsg" -> OnWindowSize(mm, msg)
      [] msg.type = "KeyMsg" -> OnKey(mm, msg)
      [] msg.type = "tickMsg" -> OnTick(mm, msg)
      [] msg.type = "SystemStats" -> OnStats(mm, msg)
      [] OTHER -> [model |-> mm, cmd |-> Nil]

\* a collection: not started, collectStats running in its goroutine, or
\* returned with its snapshot on the way to the loop
FreeSlot == [st |-> "free"]
Running == [st |-> "running"]
Returned(s) == [st |-> "returned", stats |-> s]

HasFree(coll) == \E i \in DOMAIN coll : coll[i].st = "free"
FirstFree(coll) ==
    CHOOSE i \in DOMAIN coll : coll[i].st = "free" /\ \A j \in 1..(i - 1) : coll[j].st # "free"

\* the program as Run starts it: nothing is under way, and the runtime has
\* called View on the initial model mm.  viewed is the model of the last
\* call of View: what the terminal shows is View(viewed).  Where the order
\* of the collections is recorded, order lists the collections under way in
\* the order Init and the ticks started them, and stale holds those of them
\* that a later started collection has overtaken: its snapshot has reached
\* Update already.
RtStart(mm) ==
    [started |-> TRUE, coll |-> [i \in 1..MaxInFlight |-> FreeSlot], ticks |-> 0,
     quitting |-> FALSE, quit |-> FALSE, viewed |-> mm,
     recorded |-> FALSE, order |-> <<>>, stale |-> {}]

\* the same, with the order of the collections recorded
RtStartRecorded(mm) == [RtStart(mm) EXCEPT !.recorded = TRUE]

\* the collections started before collection i, of those in order
StartedBefore(order, i) ==
    {order[k] : k \in {k \in 1..Len(order) : \E n \in (k + 1)..Len(order) : order[n] = i}}

\* order without collection i
Without(order, i) ==
    LET Other(j) == j # i
    IN  SelectSeq(order, Other)

\* collection i is over and its goroutine gone
Ended(r, i) ==
    [r EXCEPT !.coll[i] = FreeSlot, !.order = Without(@, i), !.stale = @ \ {i}]

\* the snapshot of collection i leaves for Update: the collections started
\* before it and still under way are overtaken
Delivered(r, i) ==
    IF r.recorded
    THEN [Ended(r, i) EXCEPT !.stale = (r.stale \cup StartedBefore(r.order, i)) \ {i}]
    ELSE Ended(r, i)

\* the runtime runs a command: tea.Tick arms a timer, the function of
\* updateStats runs in a goroutine, tea.Quit puts the quit message on its way
Launch(r, cmd) ==
    LET r1 == IF "tick" \in cmd THEN [r EXCEPT !.ticks = @ + 1] ELSE r
        r2 == IF "updateStats" \in cmd
              THEN [r1 EXCEPT !.coll[FirstFree(r1.coll)] = Running,
                              !.order = IF r1.recorded THEN Append(@, FirstFree(r1.coll))
                                        ELSE @]
              ELSE r1
    IN  IF "tea.Quit" \in cmd THEN [r2 EXCEPT !.quitting = TRUE] ELSE r2

\* a variant of LoopRuns in which the loop goes on after the quit message
LoopRuns_ever(r) == r.started

\* the loop takes messages until the quit message has arrived
LoopRuns(r) == r.started /\ ~r.quit

\* main, lines 66-75: the model is initialModel(), the runtime shows its
\* View and runs the command of model.Init
Init ==
    /\ m \in {initialModel(s) : s \in LoopSnapshots}
    /\ frame = NoFrame
    /\ rt = Launch(RtStart(m), model_Init)
    /\ upd = UpdIdle
    /\ bar = BarIdle
    /\ trunc = TruncIdle
    /\ det = DetIdle

\* one turn of the loop: msg has arrived and left r of what was under way;
\* the loop calls Update, runs its command and calls View on the new model
Receive(msg, r) ==
    /\ LoopRuns(rt)
    /\ LET u == Update(m, msg)
       IN  /\ "updateStats" \in u.cmd => HasFree(r.coll)
           /\ m' = u.model
           /\ upd' = [done |-> TRUE, msg |-> msg, before |-> m, cmd |-> u.cmd]
           /\ rt' = [Launch(r, u.cmd) EXCEPT !.viewed = u.model]
    /\ UNCHANGED <<frame, bar, trunc, det>>

\* the terminal reports a size
Resize == \E s \in Sizes : Receive(WindowSizeMsg(s[1], s[2]), rt)

\* a key is pressed
KeyPress == \E k \in Keys : Receive(KeyMsg(k), rt)

\* a message of a type Update has no case for
OtherMessage == Receive(OtherMsg, rt)

\* a timer of tick() fires, 3 seconds after it was armed: tickMsg arrives
TickArrives ==
    /\ rt.started
    /\ rt.ticks > 0
    /\ Receive(tickMsg, [rt EXCEPT !.ticks = @ - 1])

\* collectStats returns in the goroutine of collection i
CollectionReturns(i) ==
    /\ rt.started
    /\ rt.coll[i].st = "running"
    /\ \E s \in LoopSnapshots : rt' = [rt EXCEPT !.coll[i] = Returned(s)]
    /\ UNCHANGED <<m, frame, upd, bar, trunc, det>>

\* the snapshot of collection i arrives
StatsArrive(i) ==
    /\ rt.started
    /\ rt.coll[i].st = "returned"
    /\ Receive(StatsMsg(rt.coll[i].stats), Delivered(rt, i))

\* the quit message arrives: the loop ends
QuitArrives ==
    /\ LoopRuns(rt)
    /\ rt.quitting
    /\ rt' = [rt EXCEPT !.quit = TRUE, !.quitting = FALSE]
    /\ UNCHANGED <<m, frame, upd, bar, trunc, det>>

\* after the loop has ended nobody takes the snapshot of collection i: it is
\* dropped, or the process exits while collectStats is running
CollectionDropped(i) ==
    /\ rt.started
    /\ rt.quit
    /\ rt.coll[i].st # "free"
    /\ rt' = Ended(rt, i)
    /\ UNCHANGED <<m, frame, upd, bar, trunc, det>>

\* after the loop has ended nobody takes the tick
TickDropped ==
    /\ rt.started
    /\ rt.quit
    /\ rt.ticks > 0
    /\ rt' = [rt EXCEPT !.ticks = @ - 1]
    /\ UNCHANGED <<m, frame, upd, bar, trunc, det>>

Next ==
    \/ Resize
    \/ KeyPress
    \/ OtherMessage
    \/ TickArrives
    \/ \E i \in 1..MaxInFlight : CollectionReturns(i)
    \/ \E i \in 1..MaxInFlight : StatsArrive(i)
    \/ QuitArrives
    \/ \E i \in 1..MaxInFlight : CollectionDropped(i)
    \/ TickDropped

Spec == Init /\ [][Next]_vars

\* the goroutines of the commands and the loop are scheduled: a timer
\* fires, collectStats returns, and a message that waits for the loop is
\* taken
Fairness ==
    /\ WF_vars(TickArrives)
    /\ WF_vars(QuitArrives)
    /\ \A i \in 1..MaxInFlight : WF_vars(CollectionReturns(i)) /\ WF_vars(StatsArrive(i))

FairSpec == Spec /\ Fairness

\* the program with the order of its collections recorded
InitOrder ==
    /\ m \in {initialModel(s) : s \in LoopSnapshots}
    /\ frame = NoFrame
    /\ rt = Launch(RtStartRecorded(m), model_Init)
    /\ upd = UpdIdle
    /\ bar = BarIdle
    /\ trunc = TruncIdle
    /\ det = DetIdle

SpecOrder == InitOrder /\ [][Next]_vars /\ Fairness

---------------------------------------------------------------------------
(* Claims about the program, checked under Spec and FairSpec *)

\* what the terminal shows: the frame of the last call of View
Display == View(rt.viewed)

\* f is the placeholder and nothing else
IsLoading(f) == f.lines = <<>> /\ f.rest = Plain(LoadingText)

\* f is a composed frame: two headline rows, a blank line, the core rows, a
\* blank line, the header, the process rows, and no placeholder
IsFullFrame(f) ==
    /\ f.rest = <<>>
    /\ Len(f.lines) >= 5
    /\ FirstBarWidth(f.lines[1]) >= 20
    /\ FirstBarWidth(f.lines[2]) >= 20
    /\ f.lines[3] = <<>>
    /\ \E k \in 5..Len(f.lines) : f.lines[k - 1] = <<>> /\ f.lines[k] = HeaderRow

LoadingShown == IsLoading(Display)
FullFrameShown == IsFullFrame(Display)

\* C13: View returns "Loading..." and nothing else exactly when the stored
\* width is 0, and a composed frame for every other width; the width is 0 at
\* start-up and stays 0 until a resize message arrives, whatever snapshot is
\* stored meanwhile.
C13_LoadingUntilResized ==
    /\ m.width = 0
    /\ [](LET shown == Display
          IN  /\ rt.viewed.width = 0 <=> IsLoading(shown)
              /\ rt.viewed.width # 0 <=> IsFullFrame(shown)
              /\ LoopRuns(rt) => rt.viewed = m)
    /\ [][m.width = 0 /\ m'.width # 0 => upd'.msg.type = "WindowSizeMsg"]_vars

\* no size has been reported, a new snapshot has been stored, and View
\* returned the placeholder
C13_Witness ==
    /\ upd.done
    /\ upd.msg.type = "SystemStats"
    /\ upd.before.stats # m.stats
    /\ m.stats = StatsEight
    /\ m.width = 0
    /\ rt.viewed = m
    /\ LoadingShown

\* C14: on a resize message Update sets width and height to the reported
\* values in that call, leaves the snapshot as it is and returns no command:
\* no timer is armed and no collection is started.
C14_ResizeSetsSizeOnly ==
    [][Resize => /\ upd'.msg.type = "WindowSizeMsg"
                 /\ m'.width = upd'.msg.Width
                 /\ m'.height = upd'.msg.Height
                 /\ m'.stats = m.stats
                 /\ upd'.cmd = Nil
                 /\ rt'.coll = rt.coll /\ rt'.ticks = rt.ticks /\ rt'.quitting = rt.quitting]_vars

\* the first size arrived while a collection was running and a timer was
\* armed; View composed a frame
C14_Witness ==
    /\ upd.done
    /\ upd.msg = WindowSizeMsg(80, 24)
    /\ upd.before.width = 0
    /\ m = [stats |-> upd.before.stats, width |-> 80, height |-> 24]
    /\ rt.coll[1].st = "running"
    /\ rt.ticks = 1
    /\ FullFrameShown

\* C15: on a key message Update returns the quit command if the key is q, Q,
\* Escape or Ctrl+C and no command for any other key, and the model it
\* returns is the model it was called on.
C15_QuitKeys ==
    [][KeyPress => /\ upd'.msg.type = "KeyMsg"
                   /\ upd'.msg.key \in {"q", "Q", "esc", "ctrl+c"} => upd'.cmd = Quit
                   /\ upd'.msg.key \notin {"q", "Q", "esc", "ctrl+c"} => upd'.cmd = Nil
                   /\ upd'.cmd = Quit => rt'.quitting
                   /\ upd'.cmd = Nil => rt'.quitting = rt.quitting
                   /\ rt'.coll = rt.coll /\ rt'.ticks = rt.ticks
                   /\ m' = m]_vars

\* Q was pressed on a model with a size: the quit message is on its way and
\* the model is as it was
C15_Witness ==
    /\ upd.done
    /\ upd.msg = KeyMsg("Q")
    /\ upd.cmd = Quit
    /\ m = upd.before
    /\ m.width = 80
    /\ rt.quitting
    /\ ~rt.quit

\* another key was pressed: nothing is on its way but what was before
C15_WitnessOtherKey ==
    /\ upd.done
    /\ upd.msg = KeyMsg("a")
    /\ upd.cmd = Nil
    /\ m = upd.before
    /\ ~rt.quitting

\* a collection is under way: collectStats is running or its snapshot waits
InFlight(i) == rt.coll[i].st # "free"

C16_WitnessDropped ==
    /\ rt.quit
    /\ upd.done /\ upd.cmd = Quit /\ m = upd.before
    /\ m.stats = StatsEmpty
    /\ \A i \in 1..MaxInFlight : ~InFlight(i)
    /\ rt.ticks = 0
    /\ rt.viewed = m

\* C17: until the loop has ended every tick arms the next timer and starts
\* one collection; every collection under way is over in the end, and while
\* the loop runs it is over only by its snapshot arriving at Update, which
\* stores it; so a snapshot arrives again and again, and the snapshot of a
\* failed collection is replaced by a later one.
C17_TicksRefresh ==
    /\ [][TickArrives =>
             /\ upd'.msg = tickMsg
             /\ upd'.cmd = Batch(tick, updateStats)
             /\ m' = m
             /\ rt'.ticks = rt.ticks
             /\ \E i \in 1..MaxInFlight :
                   /\ ~InFlight(i)
                   /\ rt'.coll = [rt.coll EXCEPT ![i] = Running]]_vars
    /\ \A i \in 1..MaxInFlight : InFlight(i) ~> (~InFlight(i) \/ rt.quit)
    /\ [][\A i \in 1..MaxInFlight :
             (InFlight(i) /\ ~rt.quit /\ rt'.coll[i].st = "free") =>
                /\ rt.coll[i].st = "returned"
                /\ upd' = [done |-> TRUE, msg |-> StatsMsg(rt.coll[i].stats),
                           before |-> m, cmd |-> Nil]
                /\ m' = [m EXCEPT !.stats = rt.coll[i].stats]
                /\ rt'.viewed = m']_vars
    /\ <>rt.quit \/ []<><<\E i \in 1..MaxInFlight : StatsArrive(i)>>_vars

\* the snapshot of a failed collection was stored, and the snapshot of the
\* collection of a later tick has replaced it
C17_Witness ==
    /\ upd.done
    /\ upd.msg = StatsMsg(StatsThree)
    /\ upd.before.stats = StatsEmpty
    /\ m.stats = StatsThree
    /\ m.width = 80
    /\ rt.viewed = m
    /\ ~rt.quit /\ ~rt.quitting
    /\ rt.ticks = 1

\* C23: when the snapshot of a collection reaches Update the stored snapshot
\* becomes that snapshot as a whole, width and height stay and no command is
\* returned; a tick message leaves the stored snapshot as it is.  So the
\* snapshot of every frame is the snapshot one completed collection
\* returned: it changes only when a returned snapshot arrives, to that one.
C23_SnapshotReplacedWhole ==
    /\ [](upd.done /\ upd.msg.type = "SystemStats" =>
             /\ m.stats = upd.msg.stats
             /\ m.width = upd.before.width /\ m.height = upd.before.height
             /\ upd.cmd = Nil)
    /\ [](upd.done /\ upd.msg.type = "tickMsg" => m.stats = upd.before.stats)
    /\ [](rt.viewed = m /\ m.stats \in LoopSnapshots)
    /\ [][m'.stats # m.stats =>
             \E i \in 1..MaxInFlight :
                 /\ rt.coll[i].st = "returned"
                 /\ m'.stats = rt.coll[i].stats
                 /\ rt'.coll[i].st = "free"]_vars
    /\ [][(\E i \in 1..MaxInFlight : StatsArrive(i)) =>
             /\ rt'.ticks = rt.ticks
             /\ rt'.quitting = rt.quitting
             /\ \A j \in 1..MaxInFlight : rt'.coll[j].st # "free" => rt'.coll[j] = rt.coll[j]]_vars

\* the snapshot of a failed collection replaced the one of three cores as a
\* whole in a terminal of 80 columns, and the frame is composed from it
C23_Witness ==
    /\ upd.done
    /\ upd.msg = StatsMsg(StatsEmpty)
    /\ upd.before = [stats |-> StatsThree, width |-> 80, height |-> 24]
    /\ m = [stats |-> StatsEmpty, width |-> 80, height |-> 24]
    /\ rt.viewed = m

\* C24: the stored snapshot never goes back in time: the snapshot of a
\* collection never reaches Update after the snapshot of a collection that
\* was started later, whatever the order in which the collections complete.
C24_NeverBackInTime ==
    [][\A i \in 1..MaxInFlight : StatsArrive(i) => i \notin rt.stale]_vars

\* C25: from Init until the loop ends exactly one tick is under way, as a
\* pending timer or as a tick message not yet taken: Init arms one, the
\* Update of a tick message arms one in its place, and the Update of a
\* resize, key, snapshot or other message arms none.
C25_OneTickPending ==
    /\ rt.ticks = 1
    /\ [](LoopRuns(rt) => rt.ticks = 1)
    /\ [][TickArrives => "tick" \in upd'.cmd /\ rt'.ticks = rt.ticks]_vars
    /\ [][Resize \/ KeyPress \/ OtherMessage \/ (\E i \in 1..MaxInFlight : StatsArrive(i)) =>
             "tick" \notin upd'.cmd /\ rt'.ticks = rt.ticks]_vars

\* a size has arrived, a tick has started a second collection, the snapshot
\* of the first has been stored, a quit key is pressed: one tick is under way
C25_Witness ==
    /\ upd.done
    /\ upd.msg.type = "KeyMsg"
    /\ m.width = 80
    /\ rt.coll[1].st = "free"
    /\ rt.coll[2].st = "running"
    /\ rt.quitting /\ ~rt.quit
    /\ rt.ticks = 1

---------------------------------------------------------------------------
(* The detection of the GPU vendor, src/main.go:53-97, and its readers     *)
(* getGPUUsage and getGPUMemory, lines 462-471 and 526-535: SpecDetect     *)

\* lines 56-60
gpuVendorNone == 0
gpuVendorNVIDIA == 1
gpuVendorAMD == 2

\* the goroutines that call detectGPUVendor: main (0), which calls it at
\* line 68, and MaxCallers others, which call it whenever they like
Main == 0
Detectors == 0..MaxCallers

\* a variant of OnceRuns without the sync.Once: every caller runs the detection
OnceRuns_every(d) == TRUE

\* gpuVendorOnce.Do, line 79: the caller runs the function if no call of Do
\* has started before
OnceRuns(d) == d.once = "new"

\* lines 62-64 before main: the vendor has its zero value, the Once is new;
\* main is about to call detectGPUVendor, no collection is running
InitDetect ==
    /\ det = [started |-> TRUE, once |-> "new", detectedGPUVendor |-> gpuVendorNone,
              runs |-> 0, pc |-> [p \in Detectors |-> "start"],
              collector |-> [k \in 1..MaxInFlight |-> "idle"], reads |-> {}]
    /\ m = ModelIdle
    /\ frame = NoFrame
    /\ bar = BarIdle
    /\ trunc = TruncIdle
    /\ upd = UpdIdle
    /\ rt = RtIdle

\* p calls detectGPUVendor: Do runs the function in p, or p waits in Do
CallDetect(p) ==
    /\ det.pc[p] = "start"
    /\ det' = IF OnceRuns(det)
              THEN [det EXCEPT !.once = "running", !.runs = @ + 1, !.pc[p] = "nvidia-smi"]
              ELSE [det EXCEPT !.pc[p] = "wait"]
    /\ UNCHANGED <<m, frame, bar, trunc, upd, rt>>

\* lines 81-85: nvidia-smi has run, with or without an error
TryNvidia(p) ==
    /\ det.pc[p] = "nvidia-smi"
    /\ \E ok \in BOOLEAN :
          det' = IF ok
                 THEN [det EXCEPT !.detectedGPUVendor = gpuVendorNVIDIA, !.pc[p] = "return"]
                 ELSE [det EXCEPT !.pc[p] = "rocm-smi"]
    /\ UNCHANGED <<m, frame, bar, trunc, upd, rt>>

\* lines 88-95: rocm-smi has run, with or without an error
TryAMD(p) ==
    /\ det.pc[p] = "rocm-smi"
    /\ \E ok \in BOOLEAN :
          det' = [det EXCEPT !.detectedGPUVendor = IF ok THEN gpuVendorAMD ELSE gpuVendorNone,
                             !.pc[p] = "return"]
    /\ UNCHANGED <<m, frame, bar, trunc, upd, rt>>

\* the function returns: Do marks the Once done and returns
DetectDone(p) ==
    /\ det.pc[p] = "return"
    /\ det' = [det EXCEPT !.once = "done", !.pc[p] = "returned"]
    /\ UNCHANGED <<m, frame, bar, trunc, upd, rt>>

\* Do returns in a caller that waited, once the function has returned
WaitDone(p) ==
    /\ det.pc[p] = "wait"
    /\ det.once = "done"
    /\ det' = [det EXCEPT !.pc[p] = "returned"]
    /\ UNCHANGED <<m, frame, bar, trunc, upd, rt>>

\* a read of detectedGPUVendor by fn in goroutine by: the value read, and
\* whether the detection had completed
Read(d, by, fn) ==
    [by |-> by, fn |-> fn, vendor |-> d.detectedGPUVendor, detected |-> d.once = "done"]

\* main, line 70: initialModel calls collectStats, which calls getGPUUsage
MainGetGPUUsage ==
    /\ det.pc[Main] = "returned"
    /\ det' = [det EXCEPT !.reads = @ \cup {Read(det, Main, "getGPUUsage")},
                          !.pc[Main] = "getGPUMemory"]
    /\ UNCHANGED <<m, frame, bar, trunc, upd, rt>>

\* and getGPUMemory; then main calls p.Run
MainGetGPUMemory ==
    /\ det.pc[Main] = "getGPUMemory"
    /\ det' = [det EXCEPT !.reads = @ \cup {Read(det, Main, "getGPUMemory")},
                          !.pc[Main] = "Run"]
    /\ UNCHANGED <<m, frame, bar, trunc, upd, rt>>

\* the loop runs: the command of updateStats starts collectStats in goroutine k
StartCollection(k) ==
    /\ det.pc[Main] = "Run"
    /\ det.collector[k] = "idle"
    /\ det' = [det EXCEPT !.collector[k] = "getGPUUsage"]
    /\ UNCHANGED <<m, frame, bar, trunc, upd, rt>>

\* collectStats calls getGPUUsage in goroutine k
GetGPUUsage(k) ==
    /\ det.collector[k] = "getGPUUsage"
    /\ det' = [det EXCEPT !.reads = @ \cup {Read(det, k, "getGPUUsage")},
                          !.collector[k] = "getGPUMemory"]
    /\ UNCHANGED <<m, frame, bar, trunc, upd, rt>>

\* collectStats calls getGPUMemory in goroutine k, and returns
GetGPUMemory(k) ==
    /\ det.collector[k] = "getGPUMemory"
    /\ det' = [det EXCEPT !.reads = @ \cup {Read(det, k, "getGPUMemory")},
                          !.collector[k] = "idle"]
    /\ UNCHANGED <<m, frame, bar, trunc, upd, rt>>

NextDetect ==
    \/ \E p \in Detectors : CallDetect(p)
    \/ \E p \in Detectors : TryNvidia(p)
    \/ \E p \in Detectors : TryAMD(p)
    \/ \E p \in Detectors : DetectDone(p)
    \/ \E p \in Detectors : WaitDone(p)
    \/ MainGetGPUUsage
    \/ MainGetGPUMemory
    \/ \E k \in 1..MaxInFlight : StartCollection(k)
    \/ \E k \in 1..MaxInFlight : GetGPUUsage(k)
    \/ \E k \in 1..MaxInFlight : GetGPUMemory(k)

SpecDetect == InitDetect /\ [][NextDetect]_vars

---------------------------------------------------------------------------
(* Claims about the detection of the GPU vendor, checked under SpecDetect *)

\* C18: the detection runs at most once, whoever calls detectGPUVendor and
\* however the calls overlap; detectGPUVendor returns only when the
\* detection has completed; from then on the cached vendor never changes; and
\* every read of it by getGPUUsage and getGPUMemory, in main and in the
\* collections, comes after the detection has completed and sees its result.
C18_DetectedOnce ==
    /\ [](det.runs <= 1)
    /\ [](\A p \in Detectors : det.pc[p] = "returned" => det.once = "done")
    /\ [](\A r \in det.reads : r.detected /\ r.vendor = det.detectedGPUVendor)
    /\ [][det.once = "done" =>
             /\ det'.once = "done"
             /\ det'.detectedGPUVendor = det.detectedGPUVendor]_vars

\* three goroutines have called detectGPUVendor, the detection ran once and
\* found an AMD GPU, and main and both collections have read that
C18_Witness ==
    /\ det.started
    /\ det.runs = 1
    /\ \A p \in Detectors : det.pc[p] = "returned" \/ p = Main
    /\ det.pc[Main] = "Run"
    /\ det.detectedGPUVendor = gpuVendorAMD
    /\ \A k \in 0..MaxInFlight : \A fn \in {"getGPUUsage", "getGPUMemory"} :
          [by |-> k, fn |-> fn, vendor |-> gpuVendorAMD, detected |-> TRUE] \in det.reads

\* main waited in Do while another goroutine was running the detection
C18_WitnessWaiting ==
    /\ det.started
    /\ det.pc[Main] = "wait"
    /\ det.pc[1] = "rocm-smi"
    /\ det.once = "running"

=============================================================================
